---- MODULE Spec2Model ----
(***************************************************************************)
(* Verification model of stanford-oval/epic-kitchen-lstm:                  *)
(*   - SequentialBatchSampler      (slowfast/datasets/sequential_sampler)  *)
(*   - EpicKitchensVideoRecord     (slowfast/datasets/epickitchens_record) *)
(*   - train_epoch / eval_epoch / train   (tools/train_net)                *)
(* Dataset indices, video ids and lane positions are 0-based as in the     *)
(* Python source; TLA+ sequences are 1-based, so element i of a Python     *)
(* list l is l[i + 1] here.                                                *)
(***************************************************************************)
EXTENDS Integers, Sequences, FiniteSets, TLC

\* ------------------------------------------------------------------ bounds
MaxRecords == 4
NumVideoNames == 3
MaxBatchNum == 3
MaxOps == 4
NumVerbClasses == 2
NumNounClasses == 2
NumRecords == 1
MaxGpus == 2
MaxIdLen == 5
HistLen == 2
DrawRes == 3
RateDen == 2
MaxEpoch == 2
MaxLoaderLen == 2
MaxValLen == 1

\* train_epoch runs on a tenth of the loader before the freeze epoch.
TruncationDivisor == 10

VideoNames == 1..NumVideoNames

\* The scenario of the spec: three videos of 5, 3 and 4 records.
ScenarioRecords == <<1, 1, 1, 1, 1, 2, 2, 2, 3, 3, 3, 3>>

\* The record lists the sampler is constructed over: each element is the
\* untrimmed_video_name of the record at that dataset index.
RecordLists == (UNION {[1..n -> VideoNames] : n \in 0..MaxRecords}) \cup {ScenarioRecords}

VARIABLES
    \* ---- SequentialBatchSampler.__init__
    records,        \* dataset._video_records (video name per index)
    batch_num,      \* constructor argument
    spc,            \* position in __init__: "group", "emit", "done", "failed"
    idx,            \* loop variable of the grouping loop
    video_list,     \* list of {start_idx, end_idx, video_name}
    cur_list,       \* active lanes: list of (v_id, sub_idx)
    next_v_id,      \* next video not started yet
    sequence        \* the schedule: list of batches

samplerVars == <<records, batch_num, spc, idx, video_list, cur_list, next_v_id, sequence>>

VARIABLES
    \* ---- one EpicKitchensVideoRecord and the calls made on it
    rec,            \* the record object (its fields)
    read_result,    \* outcome of the latest temp_label read
    ops             \* the calls made on rec since construction, in order

recordVars == <<rec, read_result, ops>>

VARIABLES
    \* ---- the datasets and the label construction of train_epoch / eval_epoch
    train_dataset,  \* train_loader.dataset: sample_rate and _video_records
    val_dataset,    \* val_loader.dataset
    input_label     \* the latest history label built, and by which loop

mixVars == <<train_dataset, val_dataset, input_label>>

VARIABLES
    \* ---- train(): the epoch loop and the calls it makes
    cfg,                \* cfg.SOLVER.FREEZE_EPOCH, cfg.SOLVER.MAX_EPOCH
    start_epoch,        \* epoch the loop starts from
    train_len,          \* len(train_loader)
    val_len,            \* len(val_loader)
    tpc,                \* position in train()
    cur_epoch,          \* loop variable of train()
    cur_iter,           \* loop variable of train_epoch
    data_size,          \* data_size of the running train_epoch
    pt_idx,             \* next record of the running self-prediction pass
    val_iter,           \* loop variable of eval_epoch
    crash,              \* the exception that ended train(), "none" if none
    nan_seen,           \* a training iteration computed a non-finite loss
    iterations_started, \* training iterations entered so far
    backward_passes,    \* loss.backward() calls so far
    optimizer_steps,    \* optimizer.step() calls so far
    meter_epoch_iters,  \* iterations per epoch the train meter is set to
    last_saved,         \* epoch of the latest save_checkpoint, -1 if none
    epoch_log,          \* calls made by train() in the current epoch, in order
    lr_epoch,           \* epoch fraction last handed to optim.get_epoch_lr
    shuffled_with,      \* epoch of the latest loader.shuffle_dataset, -1 if none
    epoch_flags         \* what is_checkpoint_epoch, is_eval_epoch and eval_epoch
                        \* returned in the current epoch, "none" before the call

trainVars == <<cfg, start_epoch, train_len, val_len, tpc, cur_epoch, cur_iter, data_size,
               pt_idx, val_iter, crash, nan_seen, iterations_started, backward_passes,
               optimizer_steps, meter_epoch_iters, last_saved, epoch_log, lr_epoch,
               shuffled_with, epoch_flags>>

VARIABLES
    \* ---- train(): the checkpoint loading ahead of the epoch loop
    cfg_train,      \* cfg.TRAIN.AUTO_RESUME, CHECKPOINT_FILE_PATH, FINETUNE
    stored,         \* epochs of the checkpoints on disk
    loaded          \* branch taken by the loading and what it restored

resumeVars == <<cfg_train, stored, loaded>>

VARIABLES
    \* ---- one iteration of train_epoch / eval_epoch on every worker
    run_cfg,        \* cfg.NUM_GPUS, cfg.DETECTION.ENABLE, labels a dict, the loop
    worker          \* per worker: position in the iteration and its scalars

workerVars == <<run_cfg, worker>>

vars == <<samplerVars, recordVars, mixVars, trainVars, resumeVars, workerVars>>

\* Variables of the other components, left alone by each component's steps.
notSamplerVars == <<recordVars, mixVars, trainVars, resumeVars, workerVars>>
notRecordVars == <<samplerVars, mixVars, trainVars, resumeVars, workerVars>>
notMixVars == <<samplerVars, recordVars, trainVars, resumeVars, workerVars>>
notTrainVars == <<samplerVars, recordVars, resumeVars, workerVars>>
notWorkerVars == <<samplerVars, recordVars, mixVars, trainVars, resumeVars>>

Min(a, b) == IF a < b THEN a ELSE b

\* ------------------------------------------------ EpicKitchensVideoRecord

VerbClasses == 0..(NumVerbClasses - 1)
NounClasses == 0..(NumNounClasses - 1)

\* Annotation rows: test-set rows carry no verb_class / noun_class.
SeriesRows ==
    [video_id : VideoNames, verb_class : VerbClasses, noun_class : NounClasses]
        \cup [video_id : VideoNames]

\* __init__ (lines 5-10).
NewRecord(tup) ==
    [index |-> tup[1], series |-> tup[2],
     temp_verb |-> -1, temp_noun |-> -1, temp_valid |-> FALSE]

\* label (lines 37-40).
label(r) ==
    [verb |-> IF "verb_class" \in DOMAIN r.series THEN r.series.verb_class ELSE -1,
     noun |-> IF "noun_class" \in DOMAIN r.series THEN r.series.noun_class ELSE -1]

\* temp_label (lines 42-46): the assertion fails on an invalid record.
temp_label(r) ==
    IF ~r.temp_valid
    THEN [status |-> "AssertionError"]
    ELSE [status |-> "ok",
          verb |-> IF r.temp_valid THEN r.temp_verb ELSE -1,
          noun |-> IF r.temp_valid THEN r.temp_noun ELSE -1]

\* set_temp_label (lines 48-51).
set_temp_label(r, verb, noun) ==
    [r EXCEPT !.temp_verb = verb, !.temp_noun = noun, !.temp_valid = TRUE]

\* Mutant: the validity flag is left as it is.
invalidate_temp_Keep(r) == r

\* Mutant: the stored temp label is wiped together with the flag.
invalidate_temp_Wipe(r) ==
    [r EXCEPT !.temp_verb = -1, !.temp_noun = -1, !.temp_valid = FALSE]

\* invalidate_temp (lines 53-54).
invalidate_temp(r) == [r EXCEPT !.temp_valid = FALSE]

RecordIdle ==
    /\ rec = NewRecord(<<0, [video_id |-> 1]>>)
    /\ read_result = [status |-> "none"]
    /\ ops = <<>>

InitRecordVars ==
    /\ \E s \in {[video_id |-> 1], [video_id |-> 1, verb_class |-> 0, noun_class |-> 1]} :
          rec = NewRecord(<<0, s>>)
    /\ read_result = [status |-> "none"]
    /\ ops = <<>>

CallSetTempLabel ==
    /\ Len(ops) < MaxOps
    /\ \E verb \in VerbClasses, noun \in NounClasses :
          /\ rec' = set_temp_label(rec, verb, noun)
          /\ ops' = Append(ops, [op |-> "set", verb |-> verb, noun |-> noun])
    /\ UNCHANGED read_result
    /\ UNCHANGED notRecordVars

CallInvalidateTemp ==
    /\ Len(ops) < MaxOps
    /\ rec' = invalidate_temp(rec)
    /\ ops' = Append(ops, [op |-> "invalidate"])
    /\ UNCHANGED read_result
    /\ UNCHANGED notRecordVars

ReadTempLabel ==
    /\ Len(ops) < MaxOps
    /\ read_result' = temp_label(rec)
    /\ ops' = Append(ops, [op |-> "read"])
    /\ UNCHANGED rec
    /\ UNCHANGED notRecordVars

NextRecord ==
    \/ CallSetTempLabel
    \/ CallInvalidateTemp
    \/ ReadTempLabel

\* Video ids as strings of characters, the two ids of the spec among them.
IdChars == {"P", "0", "1", "_"}

ExampleIds ==
    {<<"P", "0", "1", "_", "1", "0", "1">>, <<"P", "0", "1", "_", "0", "1">>}

VideoIds == UNION {[1..n -> IdChars] : n \in 0..MaxIdLen} \cup ExampleIds

\* str.split(sep): the segments between the separators, empty ones included.
RECURSIVE Split(_, _)
Split(str, sep) ==
    IF str = <<>>
    THEN << <<>> >>
    ELSE LET rest == Split(Tail(str), sep)
         IN  IF Head(str) = sep
             THEN << <<>> >> \o rest
             ELSE << <<Head(str)>> \o Head(rest) >> \o Tail(rest)

\* untrimmed_video_name (lines 16-18).
untrimmed_video_name(r) == r.series.video_id

\* Mutant: the length of the first segment is looked at.
fps_FirstSegment(r) ==
    LET parts == Split(untrimmed_video_name(r), "_")
    IN  IF Len(parts) < 2
        THEN [status |-> "IndexError"]
        ELSE [status |-> "ok", value |-> IF Len(parts[1]) = 3 THEN 50 ELSE 60]

\* fps (lines 28-31): split('_')[1] is the second element of the list, and
\* indexing raises IndexError on an id without an underscore.
fps(r) ==
    LET parts == Split(untrimmed_video_name(r), "_")
    IN  IF Len(parts) < 2
        THEN [status |-> "IndexError"]
        ELSE [status |-> "ok", value |-> IF Len(parts[2]) = 3 THEN 50 ELSE 60]

InitFpsVars ==
    /\ \E id \in VideoIds : rec = NewRecord(<<0, [video_id |-> id]>>)
    /\ read_result = [status |-> "none"]
    /\ ops = <<>>

\* A caller reads record.fps.
ReadFps ==
    /\ Len(ops) < MaxOps
    /\ read_result' = fps(rec)
    /\ ops' = Append(ops, [op |-> "fps"])
    /\ UNCHANGED rec
    /\ UNCHANGED notRecordVars

NextFps == ReadFps

\* ------------------------------- label construction (train_epoch, eval_epoch)

RecordIds == 0..(NumRecords - 1)

\* A history window: HistLen dataset indices, -1 for padding.
HistoryWindows == [1..HistLen -> {-1} \cup RecordIds]

\* random.random() yields k / DrawRes for k in 0..DrawRes-1: 0.0 is a
\* possible value, 1.0 is not.
Draws == 0..(DrawRes - 1)

\* The draws of one window: one per valid position (written 0 where the
\* position is padding and random.random() is not called).
WindowDraws(inputs_index) ==
    {d \in [1..HistLen -> Draws] : \A j \in 1..HistLen : inputs_index[j] = -1 => d[j] = 0}

\* Mutant: the comparison is turned around.
DrawAbove_Below(k, rate) == k * rate.den < rate.num * DrawRes

\* random.random() > dataset.sample_rate, for the draw k / DrawRes.
DrawAbove(k, rate) == k * rate.den > rate.num * DrawRes

\* Index assignment t[i, j, c] = 1: a negative class index counts from the end.
OneHot(c, n) == IF c < 0 THEN {n + c} ELSE {c}

\* Row of torch.zeros that no assignment touched.
ZeroCell ==
    [drawn |-> FALSE, r |-> -1, read |-> "none", raised |-> FALSE, verb |-> {}, noun |-> {}]

LabelCell(k, l) ==
    [drawn |-> TRUE, r |-> k, read |-> "label", raised |-> FALSE,
     verb |-> OneHot(l.verb, NumVerbClasses), noun |-> OneHot(l.noun, NumNounClasses)]

TempCell(k, t) ==
    IF t.status = "AssertionError"
    THEN [drawn |-> TRUE, r |-> k, read |-> "temp_label", raised |-> TRUE, verb |-> {}, noun |-> {}]
    ELSE [drawn |-> TRUE, r |-> k, read |-> "temp_label", raised |-> FALSE,
          verb |-> OneHot(t.verb, NumVerbClasses), noun |-> OneHot(t.noun, NumNounClasses)]

\* train_epoch, lines 69-79: one position of the history window.
TrainHistoryCell(dataset, index, k) ==
    IF index # -1
    THEN LET cur_record == dataset.video_records[index]
         IN  IF DrawAbove(k, dataset.sample_rate)
             THEN LabelCell(k, label(cur_record))
             ELSE TempCell(k, temp_label(cur_record))
    ELSE ZeroCell

\* Mutant: the ground-truth label is written whatever the draw.
EvalHistoryCell_AlwaysLabel(dataset, index, k) ==
    IF index # -1
    THEN LabelCell(k, label(dataset.video_records[index]))
    ELSE ZeroCell

\* eval_epoch, lines 265-275: one position of the history window.
EvalHistoryCell(dataset, index, k) ==
    IF index # -1
    THEN LET cur_record == dataset.video_records[index]
         IN  IF DrawAbove(k, dataset.sample_rate)
             THEN LabelCell(k, label(cur_record))
             ELSE TempCell(k, temp_label(cur_record))
    ELSE ZeroCell

\* The loops over the positions run in order and stop at the first failed
\* assertion: later positions are never visited.
RunPositions(cells) ==
    LET failing == {j \in 1..Len(cells) : cells[j].raised}
    IN  [status |-> IF failing = {} THEN "ok" ELSE "AssertionError",
         cells |-> [j \in 1..Len(cells) |->
                      IF \E f \in failing : f < j THEN ZeroCell ELSE cells[j]]]

\* train_epoch, lines 65-80.
TrainInputLabel(dataset, inputs_index, draws) ==
    LET run == RunPositions([j \in 1..Len(inputs_index) |->
                               TrainHistoryCell(dataset, inputs_index[j], draws[j])])
    IN  [loop |-> "train", inputs_index |-> inputs_index,
         status |-> run.status, cells |-> run.cells]

\* eval_epoch, lines 261-276.
EvalInputLabel(dataset, inputs_index, draws) ==
    LET run == RunPositions([j \in 1..Len(inputs_index) |->
                               EvalHistoryCell(dataset, inputs_index[j], draws[j])])
    IN  [loop |-> "eval", inputs_index |-> inputs_index,
         status |-> run.status, cells |-> run.cells]

NoInputLabel ==
    [loop |-> "none", inputs_index |-> [j \in 1..HistLen |-> -1],
     status |-> "ok", cells |-> [j \in 1..HistLen |-> ZeroCell]]

\* The annotation row of dataset record i.
SeriesOf(i) ==
    [video_id |-> 1, verb_class |-> i % NumVerbClasses, noun_class |-> (i + 1) % NumNounClasses]

InitialSampleRate == [num |-> 0, den |-> 1]

\* A dataset right after it was built: no record has a temp label.
FreshDataset ==
    [sample_rate |-> InitialSampleRate,
     video_records |-> [i \in RecordIds |-> NewRecord(<<i, SeriesOf(i)>>)]]

\* The states set_temp_label / invalidate_temp can bring a record to.
RecordStates(i) ==
    {NewRecord(<<i, SeriesOf(i)>>)}
      \cup {set_temp_label(NewRecord(<<i, SeriesOf(i)>>), v, n) : v \in VerbClasses, n \in NounClasses}
      \cup {invalidate_temp(set_temp_label(NewRecord(<<i, SeriesOf(i)>>), v, n)) :
               v \in VerbClasses, n \in NounClasses}

SampleRates == {[num |-> k, den |-> RateDen] : k \in 0..RateDen}

\* Datasets with any sample_rate in [0, 1] and any temp-label state.
Datasets ==
    {[sample_rate |-> sr, video_records |-> vr] :
        sr \in SampleRates, vr \in {f \in [RecordIds -> UNION {RecordStates(i) : i \in RecordIds}] :
                                        \A i \in RecordIds : f[i] \in RecordStates(i)}}

MixIdle ==
    /\ train_dataset = FreshDataset
    /\ val_dataset = FreshDataset
    /\ input_label = NoInputLabel

InitMixVars ==
    /\ \E ds \in Datasets :
          \/ train_dataset = ds /\ val_dataset = FreshDataset
          \/ train_dataset = FreshDataset /\ val_dataset = ds
    /\ input_label = NoInputLabel

\* The label construction of one train_epoch iteration.
TrainBuildLabel ==
    /\ input_label.loop = "none"
    /\ \E inputs_index \in HistoryWindows : \E draws \in WindowDraws(inputs_index) :
          input_label' = TrainInputLabel(train_dataset, inputs_index, draws)
    /\ UNCHANGED <<train_dataset, val_dataset>>
    /\ UNCHANGED notMixVars

\* The label construction of one eval_epoch iteration.
EvalBuildLabel ==
    /\ input_label.loop = "none"
    /\ \E inputs_index \in HistoryWindows : \E draws \in WindowDraws(inputs_index) :
          input_label' = EvalInputLabel(val_dataset, inputs_index, draws)
    /\ UNCHANGED <<train_dataset, val_dataset>>
    /\ UNCHANGED notMixVars

NextMix ==
    \/ TrainBuildLabel
    \/ EvalBuildLabel

\* ------------------------------------------------------------------ train

LoaderLens == (0..MaxLoaderLen) \cup {TruncationDivisor}

LossValues == {"finite", "nan", "inf"}

IsFinite(loss) == loss = "finite"

\* misc.check_nan_losses: TRUE when it raises.
check_nan_losses(loss) == ~IsFinite(loss)

\* Mutant: a batch with a non-finite loss is skipped and training goes on.
LossStep_SkipBatch(loss) ==
    IF check_nan_losses(loss)
    THEN [raised |-> FALSE, backward |-> 0, step |-> 0]
    ELSE [raised |-> FALSE, backward |-> 1, step |-> 1]

\* train_epoch, lines 116-141: the loss check, then backward and step.
LossStep(loss) ==
    IF check_nan_losses(loss)
    THEN [raised |-> TRUE, backward |-> 0, step |-> 0]
    ELSE [raised |-> FALSE, backward |-> 1, step |-> 1]

\* Mutant: the pre-curriculum epochs are not cut to a tenth of the loader.
DataSize_NoTruncation(epoch) ==
    IF epoch >= cfg.FREEZE_EPOCH THEN train_len ELSE train_len

\* train_epoch, lines 55-58.
DataSize(epoch) ==
    IF epoch >= cfg.FREEZE_EPOCH THEN train_len ELSE train_len \div TruncationDivisor

\* Mutant: the ramp starts at 0 in the freeze epoch.
CurriculumRate_FromZero(epoch) ==
    [num |-> epoch - cfg.FREEZE_EPOCH, den |-> cfg.MAX_EPOCH - cfg.FREEZE_EPOCH]

\* train, lines 521-522.
CurriculumRate(epoch) ==
    [num |-> epoch - cfg.FREEZE_EPOCH + 1, den |-> cfg.MAX_EPOCH - cfg.FREEZE_EPOCH]

\* None of the three per-epoch decisions of train() has been taken yet.
NoFlags ==
    [is_checkpoint_epoch |-> "none", is_eval_epoch |-> "none", is_best_epoch |-> "none"]

\* A returned boolean as it is kept in epoch_flags.
Flag(b) == IF b THEN "true" ELSE "false"

\* train, lines 551-555, in statement order: the periodic checkpoint when
\* cu.is_checkpoint_epoch says so, then eval_epoch when misc.is_eval_epoch
\* says so.
AfterTrainEpoch(is_checkpoint_epoch, is_eval_epoch) ==
    (IF is_checkpoint_epoch THEN <<"save_checkpoint">> ELSE <<>>)
        \o (IF is_eval_epoch THEN <<"eval_epoch">> ELSE <<>>)

\* Mutant: the best-epoch checkpoint is written after every evaluation.
AfterEvalEpoch_AlwaysSave(is_best_epoch) == <<"save_best_checkpoint">>

\* train, lines 557-558: the best-epoch checkpoint when eval_epoch returned
\* is_best_epoch as true.
AfterEvalEpoch(is_best_epoch) ==
    IF is_best_epoch THEN <<"save_best_checkpoint">> ELSE <<>>

\* No learning-rate epoch has been computed yet.
NoLrEpoch == [status |-> "none", epoch |-> 0, iter |-> 0, num |-> 0, den |-> 1]

\* train_epoch, line 102: cur_epoch + float(cur_iter) / data_size, kept as
\* the fraction num / den = (cur_epoch * data_size + cur_iter) / data_size.
EpochFraction(epoch, iter, size) ==
    IF size = 0
    THEN [status |-> "ZeroDivisionError", epoch |-> epoch, iter |-> iter, num |-> 0, den |-> 0]
    ELSE [status |-> "ok", epoch |-> epoch, iter |-> iter,
          num |-> epoch * size + iter, den |-> size]

\* The checkpoint-loading variables outside a run of train().
ResumeIdle ==
    /\ cfg_train = [AUTO_RESUME |-> FALSE, CHECKPOINT_FILE_PATH |-> "", FINETUNE |-> FALSE]
    /\ stored = [output_dir |-> -1, file |-> -1]
    /\ loaded = [branch |-> "none", optimizer_state |-> "fresh"]

TrainIdle ==
    /\ cfg = [FREEZE_EPOCH |-> 0, MAX_EPOCH |-> 0]
    /\ start_epoch = 0
    /\ train_len = 0
    /\ val_len = 0
    /\ tpc = "idle"
    /\ cur_epoch = 0
    /\ cur_iter = 0
    /\ data_size = 0
    /\ pt_idx = 0
    /\ val_iter = 0
    /\ crash = "none"
    /\ nan_seen = FALSE
    /\ iterations_started = 0
    /\ backward_passes = 0
    /\ optimizer_steps = 0
    /\ meter_epoch_iters = 0
    /\ last_saved = -1
    /\ epoch_log = <<>>
    /\ lr_epoch = NoLrEpoch
    /\ shuffled_with = -1
    /\ epoch_flags = NoFlags

\* train() up to the epoch loop (lines 407-513): start_epoch is 0 or the
\* loaded checkpoint's epoch + 1; the meters are created for a tenth of the
\* train loader.
InitTrainVars ==
    /\ cfg \in [FREEZE_EPOCH : 0..MaxEpoch, MAX_EPOCH : 0..MaxEpoch]
    /\ start_epoch \in 0..MaxEpoch
    /\ train_len \in LoaderLens
    /\ val_len \in 0..MaxValLen
    /\ tpc = "epoch"
    /\ cur_epoch = start_epoch
    /\ cur_iter = 0
    /\ data_size = 0
    /\ pt_idx = 0
    /\ val_iter = 0
    /\ crash = "none"
    /\ nan_seen = FALSE
    /\ iterations_started = 0
    /\ backward_passes = 0
    /\ optimizer_steps = 0
    /\ meter_epoch_iters = train_len \div TruncationDivisor
    /\ last_saved = -1
    /\ epoch_log = <<>>
    /\ lr_epoch = NoLrEpoch
    /\ shuffled_with = -1
    /\ epoch_flags = NoFlags

\* Mutant: the freeze epoch itself still takes the shuffle branch.
InCurriculum_After(epoch) == epoch > cfg.FREEZE_EPOCH

\* train, line 520: the epoch is a curriculum epoch.
InCurriculum(epoch) == epoch >= cfg.FREEZE_EPOCH

\* Mutant: the curriculum epoch goes straight to train_epoch, without the
\* in-order self-prediction pass.
EpochHead_NoSelfPrediction ==
    /\ tpc = "epoch"
    /\ cur_epoch < cfg.MAX_EPOCH
    /\ meter_epoch_iters' =
          IF cur_epoch = cfg.FREEZE_EPOCH THEN train_len ELSE meter_epoch_iters
    /\ IF InCurriculum(cur_epoch)
       THEN /\ train_dataset' =
                  [train_dataset EXCEPT !.sample_rate = CurriculumRate(cur_epoch)]
            /\ epoch_log' =
                  (IF cur_epoch = cfg.FREEZE_EPOCH THEN <<"update_epoch_iters">> ELSE <<>>)
                      \o <<"sample_rate", "train_epoch">>
            /\ UNCHANGED shuffled_with
       ELSE /\ epoch_log' = <<"shuffle_dataset", "train_epoch">>
            /\ shuffled_with' = cur_epoch
            /\ UNCHANGED train_dataset
    /\ tpc' = "train_epoch"
    /\ cur_iter' = 0
    /\ data_size' = DataSize(cur_epoch)
    /\ pt_idx' = 0
    /\ UNCHANGED <<cfg, start_epoch, train_len, val_len, cur_epoch, val_iter, crash, nan_seen,
                   iterations_started, backward_passes, optimizer_steps, last_saved>>
    /\ UNCHANGED <<val_dataset, input_label>>
    /\ UNCHANGED lr_epoch
    /\ epoch_flags' = NoFlags
    /\ UNCHANGED notTrainVars

\* train, lines 515-523 and 540-543: the head of one epoch.  Below the
\* freeze epoch the loader is shuffled and train_epoch is entered; from the
\* freeze epoch on sample_rate is set and the self-prediction pass starts.
EpochHead ==
    /\ tpc = "epoch"
    /\ cur_epoch < cfg.MAX_EPOCH
    /\ meter_epoch_iters' =
          IF cur_epoch = cfg.FREEZE_EPOCH THEN train_len ELSE meter_epoch_iters
    /\ IF InCurriculum(cur_epoch)
       THEN /\ train_dataset' =
                  [train_dataset EXCEPT !.sample_rate = CurriculumRate(cur_epoch)]
            /\ epoch_log' =
                  (IF cur_epoch = cfg.FREEZE_EPOCH THEN <<"update_epoch_iters">> ELSE <<>>)
                      \o <<"sample_rate">>
            /\ tpc' = "perform_test"
            /\ UNCHANGED <<cur_iter, data_size, shuffled_with>>
       ELSE /\ shuffled_with' = cur_epoch
            /\ epoch_log' = <<"shuffle_dataset", "train_epoch">>
            /\ tpc' = "train_epoch"
            /\ cur_iter' = 0
            /\ data_size' = DataSize(cur_epoch)
            /\ UNCHANGED train_dataset
    /\ pt_idx' = 0
    /\ UNCHANGED <<cfg, start_epoch, train_len, val_len, cur_epoch, val_iter, crash, nan_seen,
                   iterations_started, backward_passes, optimizer_steps, last_saved>>
    /\ UNCHANGED <<val_dataset, input_label>>
    /\ UNCHANGED lr_epoch
    /\ epoch_flags' = NoFlags
    /\ UNCHANGED notTrainVars

\* perform_test on the train-in-order loader: the model's prediction for the
\* next record, in dataset order, is stored as that record's temp label.
PerformTestStep ==
    /\ tpc = "perform_test"
    /\ pt_idx < NumRecords
    /\ \E verb \in VerbClasses, noun \in NounClasses :
          train_dataset' =
              [train_dataset EXCEPT !.video_records[pt_idx] =
                  set_temp_label(train_dataset.video_records[pt_idx], verb, noun)]
    /\ pt_idx' = pt_idx + 1
    /\ UNCHANGED <<cfg, start_epoch, train_len, val_len, tpc, cur_epoch, cur_iter, data_size,
                   val_iter, crash, nan_seen, iterations_started, backward_passes,
                   optimizer_steps, meter_epoch_iters, last_saved, epoch_log>>
    /\ UNCHANGED <<val_dataset, input_label>>
    /\ UNCHANGED <<lr_epoch, shuffled_with>>
    /\ UNCHANGED epoch_flags
    /\ UNCHANGED notTrainVars

\* train, lines 538-543: perform_test returns, the train loader is rebuilt
\* over the same dataset and train_epoch is entered.
PerformTestReturn ==
    /\ tpc = "perform_test"
    /\ pt_idx = NumRecords
    /\ epoch_log' = epoch_log \o <<"perform_test", "train_epoch">>
    /\ tpc' = "train_epoch"
    /\ cur_iter' = 0
    /\ data_size' = DataSize(cur_epoch)
    /\ UNCHANGED <<cfg, start_epoch, train_len, val_len, cur_epoch, pt_idx, val_iter, crash,
                   nan_seen, iterations_started, backward_passes, optimizer_steps,
                   meter_epoch_iters, last_saved>>
    /\ UNCHANGED mixVars
    /\ UNCHANGED <<lr_epoch, shuffled_with>>
    /\ UNCHANGED epoch_flags
    /\ UNCHANGED notTrainVars

\* train_epoch, lines 60-236: one iteration on the next batch.
TrainIter ==
    /\ tpc = "train_epoch"
    /\ cur_iter < train_len
    /\ cur_iter # data_size
    /\ \E inputs_index \in HistoryWindows, loss \in LossValues :
       \E draws \in WindowDraws(inputs_index) :
          LET il == TrainInputLabel(train_dataset, inputs_index, draws)
              ef == EpochFraction(cur_epoch, cur_iter, data_size)
              ls == LossStep(loss)
          IN  /\ input_label' = il
              /\ IF il.status = "AssertionError"
                 THEN /\ tpc' = "crashed"
                      /\ crash' = "AssertionError"
                      /\ UNCHANGED <<nan_seen, backward_passes, optimizer_steps, cur_iter,
                                     lr_epoch>>
                 ELSE IF ef.status = "ZeroDivisionError"
                 THEN /\ tpc' = "crashed"
                      /\ crash' = "ZeroDivisionError"
                      /\ lr_epoch' = ef
                      /\ UNCHANGED <<nan_seen, backward_passes, optimizer_steps, cur_iter>>
                 ELSE /\ lr_epoch' = ef
                      /\ nan_seen' = (nan_seen \/ ~IsFinite(loss))
                      /\ backward_passes' = backward_passes + ls.backward
                      /\ optimizer_steps' = optimizer_steps + ls.step
                      /\ IF ls.raised
                         THEN /\ tpc' = "crashed"
                              /\ crash' = "nan_loss"
                              /\ UNCHANGED cur_iter
                         ELSE /\ cur_iter' = cur_iter + 1
                              /\ UNCHANGED <<tpc, crash>>
    /\ iterations_started' = iterations_started + 1
    /\ epoch_log' = IF cur_iter = 0 THEN Append(epoch_log, "batch") ELSE epoch_log
    /\ UNCHANGED <<cfg, start_epoch, train_len, val_len, cur_epoch, data_size, pt_idx, val_iter,
                   meter_epoch_iters, last_saved>>
    /\ UNCHANGED <<train_dataset, val_dataset>>
    /\ UNCHANGED shuffled_with
    /\ UNCHANGED epoch_flags
    /\ UNCHANGED notTrainVars

\* train_epoch returns (break at data_size or loader exhausted); train, lines
\* 545-555: the periodic checkpoint when cu.is_checkpoint_epoch says so, then
\* eval_epoch when misc.is_eval_epoch says so.
TrainEpochReturn ==
    /\ tpc = "train_epoch"
    /\ cur_iter = data_size \/ cur_iter = train_len
    /\ \E is_checkpoint_epoch \in BOOLEAN, is_eval_epoch \in BOOLEAN :
          /\ last_saved' = IF is_checkpoint_epoch THEN cur_epoch ELSE last_saved
          /\ epoch_flags' = [epoch_flags EXCEPT
                                !.is_checkpoint_epoch = Flag(is_checkpoint_epoch),
                                !.is_eval_epoch = Flag(is_eval_epoch)]
          /\ epoch_log' = epoch_log
                            \o <<"train_epoch_done">>
                            \o AfterTrainEpoch(is_checkpoint_epoch, is_eval_epoch)
          /\ IF is_eval_epoch
             THEN /\ tpc' = "eval_epoch"
                  /\ val_iter' = 0
                  /\ UNCHANGED cur_epoch
             ELSE /\ tpc' = "epoch"
                  /\ cur_epoch' = cur_epoch + 1
                  /\ UNCHANGED val_iter
    /\ UNCHANGED <<cfg, start_epoch, train_len, val_len, cur_iter, data_size, pt_idx, crash,
                   nan_seen, iterations_started, backward_passes, optimizer_steps,
                   meter_epoch_iters>>
    /\ UNCHANGED mixVars
    /\ UNCHANGED <<lr_epoch, shuffled_with>>
    /\ UNCHANGED notTrainVars

\* eval_epoch, lines 258-377: one iteration on the next validation batch.
EvalIter ==
    /\ tpc = "eval_epoch"
    /\ val_iter < val_len
    /\ \E inputs_index \in HistoryWindows : \E draws \in WindowDraws(inputs_index) :
          LET il == EvalInputLabel(val_dataset, inputs_index, draws)
          IN  /\ input_label' = il
              /\ IF il.status = "AssertionError"
                 THEN /\ tpc' = "crashed"
                      /\ crash' = "AssertionError"
                      /\ UNCHANGED val_iter
                 ELSE /\ val_iter' = val_iter + 1
                      /\ UNCHANGED <<tpc, crash>>
    /\ UNCHANGED <<cfg, start_epoch, train_len, val_len, cur_epoch, cur_iter, data_size, pt_idx,
                   nan_seen, iterations_started, backward_passes, optimizer_steps,
                   meter_epoch_iters, last_saved, epoch_log>>
    /\ UNCHANGED <<train_dataset, val_dataset>>
    /\ UNCHANGED <<lr_epoch, shuffled_with>>
    /\ UNCHANGED epoch_flags
    /\ UNCHANGED notTrainVars

\* eval_epoch returns the meter's best-epoch flag (lines 378-381); train,
\* lines 556-558: the best-epoch checkpoint, then the next epoch.
EvalEpochReturn ==
    /\ tpc = "eval_epoch"
    /\ val_iter = val_len
    /\ \E is_best_epoch \in BOOLEAN :
          /\ last_saved' = IF is_best_epoch THEN cur_epoch ELSE last_saved
          /\ epoch_flags' = [epoch_flags EXCEPT !.is_best_epoch = Flag(is_best_epoch)]
          /\ epoch_log' = epoch_log \o <<"eval_epoch_done">> \o AfterEvalEpoch(is_best_epoch)
    /\ tpc' = "epoch"
    /\ cur_epoch' = cur_epoch + 1
    /\ UNCHANGED <<cfg, start_epoch, train_len, val_len, cur_iter, data_size, pt_idx, val_iter,
                   crash, nan_seen, iterations_started, backward_passes, optimizer_steps,
                   meter_epoch_iters>>
    /\ UNCHANGED mixVars
    /\ UNCHANGED <<lr_epoch, shuffled_with>>
    /\ UNCHANGED notTrainVars

\* train, line 515: the epoch range is exhausted and train() returns.
TrainReturn ==
    /\ tpc = "epoch"
    /\ cur_epoch >= cfg.MAX_EPOCH
    /\ tpc' = "finished"
    /\ UNCHANGED <<cfg, start_epoch, train_len, val_len, cur_epoch, cur_iter, data_size, pt_idx,
                   val_iter, crash, nan_seen, iterations_started, backward_passes,
                   optimizer_steps, meter_epoch_iters, last_saved, epoch_log>>
    /\ UNCHANGED mixVars
    /\ UNCHANGED <<lr_epoch, shuffled_with>>
    /\ UNCHANGED epoch_flags
    /\ UNCHANGED notTrainVars

\* cu.has_checkpoint(cfg.OUTPUT_DIR): a checkpoint of an earlier run exists.
has_checkpoint(st) == st.output_dir # -1

\* cu.load_checkpoint(path, model, multi_gpu, optimizer, ...): returns the
\* epoch stored in the checkpoint and restores the state of the optimizer it
\* is handed.
load_checkpoint(epoch, optimizer_given) ==
    [epoch |-> epoch,
     optimizer_state |-> IF optimizer_given THEN "restored" ELSE "fresh"]

\* train, lines 450, 457, 469, 480: the branch of the checkpoint loading.
ResumeBranch(c, st) ==
    IF c.AUTO_RESUME /\ has_checkpoint(st) THEN "auto"
    ELSE IF c.CHECKPOINT_FILE_PATH # "" /\ ~c.FINETUNE THEN "file"
    ELSE IF c.CHECKPOINT_FILE_PATH # "" /\ c.FINETUNE THEN "finetune"
    ELSE "none"

\* train, lines 450-481: what the branch loads and the epoch it starts from.
\* Every loading branch hands the optimizer to cu.load_checkpoint.
Resume(c, st) ==
    LET branch == ResumeBranch(c, st)
    IN  IF branch = "auto"
        THEN LET ck == load_checkpoint(st.output_dir, TRUE)
             IN  [branch |-> branch, start_epoch |-> ck.epoch + 1,
                  optimizer_state |-> ck.optimizer_state]
        ELSE IF branch = "file"
        THEN LET ck == load_checkpoint(st.file, TRUE)
             IN  [branch |-> branch, start_epoch |-> ck.epoch + 1,
                  optimizer_state |-> ck.optimizer_state]
        ELSE IF branch = "finetune"
        THEN LET ck == load_checkpoint(st.file, TRUE)
             IN  [branch |-> branch, start_epoch |-> 0,
                  optimizer_state |-> ck.optimizer_state]
        ELSE [branch |-> branch, start_epoch |-> 0, optimizer_state |-> "fresh"]

\* Loader lengths of the runs that start with the checkpoint loading.
ResumeLoaderLens == {1}

\* train() up to the checkpoint loading (lines 407-448).
InitResumeVars ==
    /\ cfg \in [FREEZE_EPOCH : 0..MaxEpoch, MAX_EPOCH : 0..MaxEpoch]
    /\ cfg_train \in [AUTO_RESUME : BOOLEAN, CHECKPOINT_FILE_PATH : {"", "ckpt"},
                       FINETUNE : BOOLEAN]
    /\ stored \in [output_dir : -1..(MaxEpoch - 1), file : -1..(MaxEpoch - 1)]
    /\ (stored.file = -1) <=> (cfg_train.CHECKPOINT_FILE_PATH = "")
    /\ loaded = [branch |-> "pending", optimizer_state |-> "fresh"]
    /\ start_epoch = -1
    /\ train_len \in ResumeLoaderLens
    /\ val_len \in 0..MaxValLen
    /\ tpc = "load"
    /\ cur_epoch = -1
    /\ cur_iter = 0
    /\ data_size = 0
    /\ pt_idx = 0
    /\ val_iter = 0
    /\ crash = "none"
    /\ nan_seen = FALSE
    /\ iterations_started = 0
    /\ backward_passes = 0
    /\ optimizer_steps = 0
    /\ meter_epoch_iters = 0
    /\ last_saved = -1
    /\ epoch_log = <<>>
    /\ lr_epoch = NoLrEpoch
    /\ shuffled_with = -1
    /\ epoch_flags = NoFlags

\* train, lines 450-513: the checkpoint loading, then the meters, created
\* for a tenth of the train loader; the epoch loop starts at start_epoch.
LoadCheckpoint ==
    /\ tpc = "load"
    /\ LET r == Resume(cfg_train, stored)
       IN  /\ loaded' = [branch |-> r.branch, optimizer_state |-> r.optimizer_state]
           /\ start_epoch' = r.start_epoch
           /\ cur_epoch' = r.start_epoch
    /\ meter_epoch_iters' = train_len \div TruncationDivisor
    /\ tpc' = "epoch"
    /\ UNCHANGED <<cfg, train_len, val_len, cur_iter, data_size, pt_idx, val_iter, crash,
                   nan_seen, iterations_started, backward_passes, optimizer_steps, last_saved,
                   epoch_log, lr_epoch, shuffled_with>>
    /\ UNCHANGED epoch_flags
    /\ UNCHANGED <<cfg_train, stored>>
    /\ UNCHANGED mixVars
    /\ UNCHANGED <<samplerVars, recordVars, workerVars>>

NextTrain ==
    \/ EpochHead
    \/ PerformTestStep
    \/ PerformTestReturn
    \/ TrainIter
    \/ TrainEpochReturn
    \/ EvalIter
    \/ EvalEpochReturn
    \/ TrainReturn

NextResume ==
    \/ LoadCheckpoint
    \/ EpochHead
    \/ PerformTestStep
    \/ PerformTestReturn
    \/ TrainIter
    \/ TrainEpochReturn
    \/ EvalIter
    \/ EvalEpochReturn
    \/ TrainReturn

\* ------------------------------------- one iteration on every worker

\* du.all_reduce under "if cfg.NUM_GPUS > 1": entered only with several GPUs.
Reduce(c, names) ==
    IF c.NUM_GPUS > 1 THEN <<[kind |-> "all_reduce", names |-> names]>> ELSE <<>>

\* du.all_gather_unaligned under "if cfg.NUM_GPUS > 1".
Gather(c, names) ==
    IF c.NUM_GPUS > 1 THEN <<[kind |-> "all_gather", names |-> names]>> ELSE <<>>

\* The .item() calls of one statement.
Item(names) == <<[kind |-> "item", names |-> names]>>

\* Mutant: the detection loss is copied to the host before it is reduced.
TrainMetricPlan_ItemFirst(c) ==
    IF c.DETECTION
    THEN Item({"loss"}) \o Reduce(c, {"loss"})
    ELSE IF c.dict_labels
    THEN Reduce(c, {"loss_verb", "verb_top1_acc", "verb_top5_acc"})
           \o Item({"loss_verb", "verb_top1_acc", "verb_top5_acc"})
           \o Reduce(c, {"loss_noun", "noun_top1_acc", "noun_top5_acc"})
           \o Item({"loss_noun", "noun_top1_acc", "noun_top5_acc"})
           \o Reduce(c, {"loss", "action_top1_acc", "action_top5_acc"})
           \o Item({"loss", "action_top1_acc", "action_top5_acc"})
    ELSE Reduce(c, {"loss", "top1_err", "top5_err"})
           \o Item({"loss", "top1_err", "top5_err"})

\* train_epoch, lines 143-234: the reductions and host copies of the logged
\* scalars, in statement order.
TrainMetricPlan(c) ==
    IF c.DETECTION
    THEN Reduce(c, {"loss"}) \o Item({"loss"})
    ELSE IF c.dict_labels
    THEN Reduce(c, {"loss_verb", "verb_top1_acc", "verb_top5_acc"})
           \o Item({"loss_verb", "verb_top1_acc", "verb_top5_acc"})
           \o Reduce(c, {"loss_noun", "noun_top1_acc", "noun_top5_acc"})
           \o Item({"loss_noun", "noun_top1_acc", "noun_top5_acc"})
           \o Reduce(c, {"loss", "action_top1_acc", "action_top5_acc"})
           \o Item({"loss", "action_top1_acc", "action_top5_acc"})
    ELSE Reduce(c, {"loss", "top1_err", "top5_err"})
           \o Item({"loss", "top1_err", "top5_err"})

\* eval_epoch, lines 297-375.
EvalMetricPlan(c) ==
    IF c.DETECTION
    THEN <<[kind |-> "cpu", names |-> {"preds", "ori_boxes", "metadata"}]>>
           \o Gather(c, {"preds"}) \o Gather(c, {"ori_boxes"}) \o Gather(c, {"metadata"})
    ELSE IF c.dict_labels
    THEN Reduce(c, {"verb_top1_acc", "verb_top5_acc"})
           \o Item({"verb_top1_acc", "verb_top5_acc"})
           \o Reduce(c, {"noun_top1_acc", "noun_top5_acc"})
           \o Item({"noun_top1_acc", "noun_top5_acc"})
           \o Reduce(c, {"action_top1_acc", "action_top5_acc"})
           \o Item({"action_top1_acc", "action_top5_acc"})
    ELSE Reduce(c, {"top1_err", "top5_err"}) \o Item({"top1_err", "top5_err"})

MetricPlan(c) == IF c.loop = "train" THEN TrainMetricPlan(c) ELSE EvalMetricPlan(c)

Workers == 1..run_cfg.NUM_GPUS

IsCollective(step) == step.kind \in {"all_reduce", "all_gather"}

\* A worker at the top of the loop body.
NewWorker ==
    [at |-> "label", step |-> 0, waiting |-> FALSE, reduced |-> {}, items |-> {},
     exc |-> "none"]

WorkersIdle ==
    /\ run_cfg = [NUM_GPUS |-> 0, DETECTION |-> FALSE, dict_labels |-> FALSE, loop |-> "none"]
    /\ worker = <<>>

\* The datasets train() hands to its loops: as built, or after a curriculum
\* epoch's rate update and self-prediction pass.
LoopDatasets ==
    {d \in Datasets :
        \/ d = FreshDataset
        \/ /\ d.sample_rate.num > 0
           /\ \A i \in RecordIds : d.video_records[i].temp_valid}

\* Every worker runs the same loop on the same configuration and its own
\* copy of the dataset.
InitWorkerVars ==
    /\ run_cfg \in [NUM_GPUS : 1..MaxGpus, DETECTION : BOOLEAN, dict_labels : BOOLEAN,
                     loop : {"train", "eval"}]
    /\ worker = [w \in Workers |-> NewWorker]
    /\ train_dataset \in LoopDatasets
    /\ val_dataset = FreshDataset
    /\ input_label = NoInputLabel

\* train_epoch, lines 65-80, eval_epoch, lines 261-276: worker w builds the
\* history label from its own batch and its own random draws.
WorkerLabel(w) ==
    /\ worker[w].at = "label"
    /\ \E inputs_index \in HistoryWindows : \E draws \in WindowDraws(inputs_index) :
          LET il == IF run_cfg.loop = "train"
                    THEN TrainInputLabel(train_dataset, inputs_index, draws)
                    ELSE EvalInputLabel(val_dataset, inputs_index, draws)
          IN  worker' = [worker EXCEPT ![w] =
                  IF il.status = "AssertionError"
                  THEN [@ EXCEPT !.at = "raised", !.exc = "AssertionError"]
                  ELSE [@ EXCEPT !.at = IF run_cfg.loop = "train" THEN "loss" ELSE "metrics",
                                 !.step = 1]]
    /\ UNCHANGED run_cfg
    /\ UNCHANGED notWorkerVars

\* train_epoch, lines 116-141: worker w checks the loss of its own batch,
\* then runs backward and step.
WorkerLoss(w) ==
    /\ worker[w].at = "loss"
    /\ \E loss \in LossValues :
          worker' = [worker EXCEPT ![w] =
              IF LossStep(loss).raised
              THEN [@ EXCEPT !.at = "raised", !.exc = "nan_loss"]
              ELSE [@ EXCEPT !.at = "metrics"]]
    /\ UNCHANGED run_cfg
    /\ UNCHANGED notWorkerVars

AtStep(w) ==
    /\ worker[w].at = "metrics"
    /\ worker[w].step <= Len(MetricPlan(run_cfg))

\* Worker w enters the collective of its current step and waits in it.
WorkerEnterCollective(w) ==
    /\ AtStep(w)
    /\ IsCollective(MetricPlan(run_cfg)[worker[w].step])
    /\ ~worker[w].waiting
    /\ worker' = [worker EXCEPT ![w].waiting = TRUE]
    /\ UNCHANGED run_cfg
    /\ UNCHANGED notWorkerVars

\* Every worker of the job has entered the same collective: it returns the
\* reduced values on all of them.
CollectiveReturns ==
    /\ \A w \in Workers : AtStep(w) /\ worker[w].waiting
    /\ \A w1, w2 \in Workers : worker[w1].step = worker[w2].step
    /\ worker' = [w \in Workers |->
            [worker[w] EXCEPT !.waiting = FALSE,
                              !.step = @ + 1,
                              !.reduced = @ \cup MetricPlan(run_cfg)[worker[w].step].names]]
    /\ UNCHANGED run_cfg
    /\ UNCHANGED notWorkerVars

\* Worker w copies values to the host: .item() on scalars, .cpu() on the
\* detection outputs.
WorkerItem(w) ==
    /\ AtStep(w)
    /\ ~IsCollective(MetricPlan(run_cfg)[worker[w].step])
    /\ LET st == MetricPlan(run_cfg)[worker[w].step]
       IN  worker' = [worker EXCEPT ![w].step = @ + 1,
                                    ![w].items = IF st.kind = "item" THEN @ \cup st.names ELSE @]
    /\ UNCHANGED run_cfg
    /\ UNCHANGED notWorkerVars

\* train_epoch, lines 235-236, eval_epoch, lines 376-377: the meter logs the
\* iteration.
WorkerLogIter(w) ==
    /\ worker[w].at = "metrics"
    /\ worker[w].step = Len(MetricPlan(run_cfg)) + 1
    /\ worker' = [worker EXCEPT ![w].at = "done"]
    /\ UNCHANGED run_cfg
    /\ UNCHANGED notWorkerVars

NextWorkers ==
    \/ \E w \in Workers : WorkerLabel(w)
    \/ \E w \in Workers : WorkerLoss(w)
    \/ \E w \in Workers : WorkerEnterCollective(w)
    \/ CollectiveReturns
    \/ \E w \in Workers : WorkerItem(w)
    \/ \E w \in Workers : WorkerLogIter(w)

\* ------------------------------------------------- SequentialBatchSampler

\* Mutant: the end of the current group is never moved forward.
GroupEntry_NoExtend(vl, i, name) ==
    IF Len(vl) = 0 \/ name # vl[Len(vl)].video_name
    THEN Append(vl, [start_idx |-> i, end_idx |-> i, video_name |-> name])
    ELSE vl

\* Body of the grouping loop (lines 15-22) for the entry at index i.
GroupEntry(vl, i, name) ==
    IF Len(vl) = 0 \/ name # vl[Len(vl)].video_name
    THEN Append(vl, [start_idx |-> i, end_idx |-> i, video_name |-> name])
    ELSE [vl EXCEPT ![Len(vl)].end_idx = i]

\* Mutant: a lane walks its video from the last record down to the first.
EmitBatch_Backwards(vl, cl) ==
    [k \in 1..Len(cl) |-> vl[cl[k][1] + 1].end_idx - cl[k][2]]

\* The batch emitted for the current lanes (line 33).
EmitBatch(vl, cl) ==
    [k \in 1..Len(cl) |-> vl[cl[k][1] + 1].start_idx + cl[k][2]]

\* Mutant: a finished lane is always retired, never rebound to a new video.
AdvanceLane_Retire(lane, vl, nv) ==
    LET v_id == lane[1]
        sub_idx == lane[2]
        start_idx == vl[v_id + 1].start_idx
        end_idx == vl[v_id + 1].end_idx
    IN  IF start_idx + sub_idx = end_idx
        THEN [add |-> <<>>, nv |-> nv]
        ELSE [add |-> <<(<<v_id, sub_idx + 1>>)>>, nv |-> nv]

\* Mutant: a finished lane is rebound to the video before next_v_id.
AdvanceLane_RebindPrevious(lane, vl, nv) ==
    LET v_id == lane[1]
        sub_idx == lane[2]
        start_idx == vl[v_id + 1].start_idx
        end_idx == vl[v_id + 1].end_idx
    IN  IF start_idx + sub_idx = end_idx
        THEN IF nv # Len(vl)
             THEN [add |-> <<(<<nv - 1, 0>>)>>, nv |-> nv + 1]
             ELSE [add |-> <<>>, nv |-> nv]
        ELSE [add |-> <<(<<v_id, sub_idx + 1>>)>>, nv |-> nv]

\* Body of the inner for loop (lines 35-46) for one lane: what the lane adds
\* to new_list and the value of next_v_id afterwards.
AdvanceLane(lane, vl, nv) ==
    LET v_id == lane[1]
        sub_idx == lane[2]
        start_idx == vl[v_id + 1].start_idx
        end_idx == vl[v_id + 1].end_idx
    IN  IF start_idx + sub_idx = end_idx
        THEN IF nv # Len(vl)
             THEN [add |-> <<(<<nv, 0>>)>>, nv |-> nv + 1]
             ELSE [add |-> <<>>, nv |-> nv]
        ELSE [add |-> <<(<<v_id, sub_idx + 1>>)>>, nv |-> nv]

RECURSIVE AdvanceLanes_Prepend(_, _, _, _, _)
\* Mutant: new_list is built by prepending, so lanes change places.
AdvanceLanes_Prepend(cl, k, vl, nl, nv) ==
    IF k > Len(cl)
    THEN [new_list |-> nl, next_v_id |-> nv]
    ELSE LET r == AdvanceLane(cl[k], vl, nv)
         IN  AdvanceLanes_Prepend(cl, k + 1, vl, r.add \o nl, r.nv)

RECURSIVE AdvanceLanes(_, _, _, _, _)
\* The inner for loop over cur_list (lines 34-46), lanes k..len in order.
AdvanceLanes(cl, k, vl, nl, nv) ==
    IF k > Len(cl)
    THEN [new_list |-> nl, next_v_id |-> nv]
    ELSE LET r == AdvanceLane(cl[k], vl, nv)
         IN  AdvanceLanes(cl, k + 1, vl, nl \o r.add, r.nv)

RECURSIVE FlatLen(_)
\* len([item for sub_seq in sequence for item in sub_seq]) (line 50).
FlatLen(s) == IF s = <<>> THEN 0 ELSE Len(Head(s)) + FlatLen(Tail(s))

InitSamplerVars ==
    /\ records \in RecordLists
    /\ batch_num \in 0..MaxBatchNum
    /\ spc = "group"
    /\ idx = 0
    /\ video_list = <<>>
    /\ cur_list = <<>>
    /\ next_v_id = 0
    /\ sequence = <<>>

\* One iteration of the grouping loop (lines 14-22).
GroupStep ==
    /\ spc = "group"
    /\ idx < Len(records)
    /\ video_list' = GroupEntry(video_list, idx, records[idx + 1])
    /\ idx' = idx + 1
    /\ UNCHANGED <<records, batch_num, spc, cur_list, next_v_id, sequence>>
    /\ UNCHANGED notSamplerVars

\* End of the grouping loop: the initial lanes (lines 24-30).
InitLanes ==
    /\ spc = "group"
    /\ idx = Len(records)
    /\ LET start_num == Min(Len(video_list), batch_num)
       IN  /\ cur_list' = [v \in 1..start_num |-> <<v - 1, 0>>]
           /\ next_v_id' = start_num
    /\ sequence' = <<>>
    /\ spc' = "emit"
    /\ UNCHANGED <<records, batch_num, idx, video_list>>
    /\ UNCHANGED notSamplerVars

\* One iteration of the while loop (lines 32-47).
EmitStep ==
    /\ spc = "emit"
    /\ Len(cur_list) # 0
    /\ sequence' = Append(sequence, EmitBatch(video_list, cur_list))
    /\ LET r == AdvanceLanes(cur_list, 1, video_list, <<>>, next_v_id)
       IN  /\ cur_list' = r.new_list
           /\ next_v_id' = r.next_v_id
    /\ UNCHANGED <<records, batch_num, spc, idx, video_list>>
    /\ UNCHANGED notSamplerVars

\* The sanity assertion and the assignment of self.sequence (lines 50-52).
SanityCheck ==
    /\ spc = "emit"
    /\ Len(cur_list) = 0
    /\ spc' = IF FlatLen(sequence) = Len(records) THEN "done" ELSE "failed"
    /\ UNCHANGED <<records, batch_num, idx, video_list, cur_list, next_v_id, sequence>>
    /\ UNCHANGED notSamplerVars

InitSampler == InitSamplerVars /\ RecordIdle /\ MixIdle /\ TrainIdle /\ ResumeIdle /\ WorkersIdle

NextSampler ==
    \/ GroupStep
    \/ InitLanes
    \/ EmitStep
    \/ SanityCheck

SpecSampler == InitSampler /\ [][NextSampler]_vars

SamplerIdle ==
    /\ records = <<>>
    /\ batch_num = 0
    /\ spc = "idle"
    /\ idx = 0
    /\ video_list = <<>>
    /\ cur_list = <<>>
    /\ next_v_id = 0
    /\ sequence = <<>>

InitRecord == InitRecordVars /\ SamplerIdle /\ MixIdle /\ TrainIdle /\ ResumeIdle /\ WorkersIdle

SpecRecord == InitRecord /\ [][NextRecord]_vars

InitMix == InitMixVars /\ SamplerIdle /\ RecordIdle /\ TrainIdle /\ ResumeIdle /\ WorkersIdle

SpecMix == InitMix /\ [][NextMix]_vars

InitTrain == InitTrainVars /\ MixIdle /\ SamplerIdle /\ RecordIdle /\ ResumeIdle /\ WorkersIdle

SpecTrain == InitTrain /\ [][NextTrain]_vars

InitResume == InitResumeVars /\ MixIdle /\ SamplerIdle /\ RecordIdle /\ WorkersIdle

SpecResume == InitResume /\ [][NextResume]_vars

InitFps ==
    InitFpsVars /\ SamplerIdle /\ MixIdle /\ TrainIdle /\ ResumeIdle /\ WorkersIdle

SpecFps == InitFps /\ [][NextFps]_vars

InitWorkers ==
    InitWorkerVars /\ SamplerIdle /\ RecordIdle /\ TrainIdle /\ ResumeIdle

SpecWorkers == InitWorkers /\ [][NextWorkers]_vars

\* ===================================================== sampler properties

RECURSIVE Flatten(_)
Flatten(s) == IF s = <<>> THEN <<>> ELSE Head(s) \o Flatten(Tail(s))

Occurrences(i, f) == Cardinality({k \in 1..Len(f) : f[k] = i})

SamplerReturned == spc \in {"done", "failed"}

\* The groups (1-based positions in video_list) whose bounds contain index i.
InGroup(i, g) == video_list[g].start_idx <= i /\ i <= video_list[g].end_idx

SameGroup(a, b) == \E g \in 1..Len(video_list) : InGroup(a, g) /\ InGroup(b, g)

\* Group g has an index in one of the batches 1..k of the schedule.
StartedBy(g, k) ==
    \E k2 \in 1..k : \E p \in 1..Len(sequence[k2]) : InGroup(sequence[k2][p], g)

\* b is the start of a group that no batch up to batch k has touched.
NewVideoStart(b, k) ==
    \E g \in 1..Len(video_list) : video_list[g].start_idx = b /\ ~StartedBy(g, k)

\* b continues a inside one video group.
WalksOn(a, b) == b = a + 1 /\ SameGroup(a, b)

\* The same video name appears in two separated runs of the record list.
NonContiguous(r) ==
    \E i, j, k \in 1..Len(r) : i < j /\ j < k /\ r[i] = r[k] /\ r[j] # r[i]

NumRuns(r) == Cardinality({i \in 1..Len(r) : i = 1 \/ r[i] # r[i - 1]})

NamesOf(r) == {r[i] : i \in 1..Len(r)}

\* C1: for every record list and every batch_num >= 1, the flattened
\* schedule holds every index of [0, N) exactly once and no other value.
C1_SchedulePermutation ==
    (batch_num >= 1 /\ SamplerReturned) =>
        LET f == Flatten(sequence)
            N == Len(records)
        IN  /\ Len(f) = N
            /\ \A k \in 1..Len(f) : f[k] \in 0..(N - 1)
            /\ \A i \in 0..(N - 1) : Occurrences(i, f) = 1

C1_Witness ==
    /\ spc = "done"
    /\ batch_num = 2
    /\ Len(records) = 4
    /\ Len(video_list) = 3
    /\ Len(sequence) >= 2

\* C2 (as claimed): at every position p that two consecutive batches share,
\* the later value is the earlier value + 1 inside the same video group, or
\* the start of a video group not started before.
C2_SamePositionWalk ==
    (batch_num >= 1 /\ spc = "done") =>
        \A k \in 1..(Len(sequence) - 1) :
            \A p \in 1..Min(Len(sequence[k]), Len(sequence[k + 1])) :
                \/ WalksOn(sequence[k][p], sequence[k + 1][p])
                \/ NewVideoStart(sequence[k + 1][p], k)

\* C2 (amended): every value of the later batch continues, by + 1 inside one
\* video group, the value of a lane at the same or a later position of the
\* earlier batch (the same position when both batches have the same length),
\* or is the start of a video group not started before.
C2_LaneWalk ==
    (batch_num >= 1 /\ spc = "done") =>
        \A k \in 1..(Len(sequence) - 1) :
            LET b == sequence[k]
                b2 == sequence[k + 1]
            IN  /\ Len(b2) <= Len(b)
                /\ \A p \in 1..Len(b2) :
                      \/ \E q \in p..Len(b) : WalksOn(b[q], b2[p])
                      \/ NewVideoStart(b2[p], k)
                /\ Len(b2) = Len(b) =>
                      \A p \in 1..Len(b2) :
                          WalksOn(b[p], b2[p]) \/ NewVideoStart(b2[p], k)

\* A lane was retired in front of a lane that goes on: the later batch is
\* shorter and its first value continues the second lane of the earlier one.
C2_Witness ==
    /\ spc = "done"
    /\ \E k \in 1..(Len(sequence) - 1) :
          /\ Len(sequence[k]) = 2
          /\ Len(sequence[k + 1]) = 1
          /\ sequence[k + 1][1] = sequence[k][2] + 1

ScenarioRun == records = ScenarioRecords /\ batch_num = 2

\* C4 (as claimed): sizes [5, 3, 4] with batch_num = 2 give exactly 5
\* batches, the first holding the starts of videos 0 and 1, 12 indices.
C4_ScenarioFiveBatches ==
    (ScenarioRun /\ SamplerReturned) =>
        /\ spc = "done"
        /\ Len(sequence) = 5
        /\ sequence[1] = <<0, 5>>
        /\ FlatLen(sequence) = 12

\* C4 (amended): the schedule has exactly 7 batches (lane 1 walks video 1
\* and then video 2: 3 + 4 steps), the first batch holds the starts of
\* videos 0 and 1 and 12 indices are emitted in total.
C4_ScenarioSevenBatches ==
    (ScenarioRun /\ SamplerReturned) =>
        /\ spc = "done"
        /\ Len(sequence) = 7
        /\ sequence[1] = <<0, 5>>
        /\ FlatLen(sequence) = 12
        /\ sequence = << <<0, 5>>, <<1, 6>>, <<2, 7>>, <<3, 8>>, <<4, 9>>, <<10>>, <<11>> >>

C4_Witness == ScenarioRun /\ spc = "done" /\ Len(sequence) = 7

\* ====================================================== record properties

\* Positions in ops of the calls that change the record.
Mutators(o) == {k \in 1..Len(o) : o[k].op \in {"set", "invalidate"}}

LastMutator(o) == CHOOSE k \in Mutators(o) : \A k2 \in Mutators(o) : k2 <= k

\* No set_temp_label since construction or since the latest invalidate_temp.
NoSetSince(o) == Mutators(o) = {} \/ o[LastMutator(o)].op = "invalidate"

JustRead == Len(ops) > 0 /\ ops[Len(ops)].op = "read"

\* C5: a temp_label read fails exactly when no set_temp_label happened since
\* construction or since the latest invalidate_temp; otherwise it returns the
\* verb and noun of the latest set_temp_label.
C5_ReadBeforeWrite ==
    JustRead =>
        IF NoSetSince(ops)
        THEN read_result.status = "AssertionError"
        ELSE read_result = [status |-> "ok",
                            verb |-> ops[LastMutator(ops)].verb,
                            noun |-> ops[LastMutator(ops)].noun]

\* A read that fails after set_temp_label followed by invalidate_temp.
C5_Witness ==
    /\ JustRead
    /\ read_result.status = "AssertionError"
    /\ \E k \in 1..Len(ops) : ops[k].op = "set"
    /\ rec.temp_verb # -1

\* ============================================= label-mixing properties

RateIsZero(rate) == rate.num = 0
RateIsOne(rate) == rate.num = rate.den

\* The dataset the latest label construction read.
BuiltFrom == IF input_label.loop = "train" THEN train_dataset ELSE val_dataset

Built == input_label.loop \in {"train", "eval"}

\* Positions of the latest window that hold a valid index and were visited.
VisitedValid ==
    {j \in 1..HistLen : input_label.inputs_index[j] # -1 /\ input_label.cells[j].drawn}

GroundTruthCell(j) ==
    LET c == input_label.cells[j]
        l == label(BuiltFrom.video_records[input_label.inputs_index[j]])
    IN  /\ c.read = "label"
        /\ c.verb = OneHot(l.verb, NumVerbClasses)
        /\ c.noun = OneHot(l.noun, NumNounClasses)

SelfPredictedCell(j) ==
    LET c == input_label.cells[j]
        rcd == BuiltFrom.video_records[input_label.inputs_index[j]]
    IN  /\ c.read = "temp_label"
        /\ ~c.raised
        /\ rcd.temp_valid
        /\ c.verb = {rcd.temp_verb}
        /\ c.noun = {rcd.temp_noun}

\* C6 (as claimed): with sample_rate = 0.0 every valid history position gets
\* the ground-truth label and temp_label is never read, whatever the draw.
C6_RateZeroGroundTruth ==
    (Built /\ RateIsZero(BuiltFrom.sample_rate)) =>
        \A j \in VisitedValid : GroundTruthCell(j)

\* C7: with sample_rate = 1.0 every valid history position that is built
\* reads temp_label (the self-predicted label), never the ground truth.
C7_RateOneSelfPredicted ==
    (Built /\ RateIsOne(BuiltFrom.sample_rate)) =>
        \A j \in VisitedValid :
            /\ input_label.cells[j].read = "temp_label"
            /\ ~input_label.cells[j].raised => SelfPredictedCell(j)

\* Both loops reach a window whose positions all carry self-predicted labels
\* that differ from the ground truth.
C7_Witness ==
    /\ input_label.loop = "eval"
    /\ RateIsOne(BuiltFrom.sample_rate)
    /\ input_label.status = "ok"
    /\ VisitedValid = 1..HistLen
    /\ \A j \in 1..HistLen : SelfPredictedCell(j) /\ ~GroundTruthCell(j)

\* C9 (as claimed): a draw below sample_rate selects the ground-truth label,
\* any other draw the self-predicted label.
C9_BelowIsGroundTruth ==
    Built =>
        \A j \in VisitedValid :
            LET k == input_label.cells[j].r
                rate == BuiltFrom.sample_rate
            IN  IF k * rate.den < rate.num * DrawRes
                THEN GroundTruthCell(j)
                ELSE input_label.cells[j].read = "temp_label"

\* C9 (amended): a draw strictly above sample_rate selects the ground-truth
\* label; a draw equal to or below sample_rate reads the record's temp_label
\* (the self-predicted label, or the failed assertion when it is invalid).
C9_AboveIsGroundTruth ==
    Built =>
        \A j \in VisitedValid :
            LET k == input_label.cells[j].r
                rate == BuiltFrom.sample_rate
            IN  IF k * rate.den > rate.num * DrawRes
                THEN GroundTruthCell(j)
                ELSE /\ input_label.cells[j].read = "temp_label"
                     /\ ~input_label.cells[j].raised => SelfPredictedCell(j)
                     /\ input_label.cells[j].raised <=>
                            ~BuiltFrom.video_records[input_label.inputs_index[j]].temp_valid

\* One window of train_epoch with a draw on each side of a sample_rate
\* strictly between 0 and 1.
C9_Witness ==
    /\ input_label.loop = "train"
    /\ ~RateIsZero(BuiltFrom.sample_rate)
    /\ ~RateIsOne(BuiltFrom.sample_rate)
    /\ input_label.status = "ok"
    /\ \E j1, j2 \in VisitedValid :
          /\ GroundTruthCell(j1) /\ ~SelfPredictedCell(j1)
          /\ SelfPredictedCell(j2) /\ ~GroundTruthCell(j2)

\* ==================================================== train properties

\* Position of the first occurrence of event e in the epoch log, 0 if none.
FirstAt(e) ==
    IF \E k \in 1..Len(epoch_log) : epoch_log[k] = e
    THEN CHOOSE k \in 1..Len(epoch_log) :
            epoch_log[k] = e /\ \A k2 \in 1..(k - 1) : epoch_log[k2] # e
    ELSE 0

Logged(e) == FirstAt(e) # 0

\* train() is inside epoch cur_epoch: epoch_log is the log of that epoch.
InEpoch == tpc \in {"perform_test", "train_epoch", "eval_epoch", "crashed"}

SameRate(a, b) == a.num * b.den = b.num * a.den

\* C8: in every epoch at or above freeze_epoch, sample_rate is updated and
\* the in-order self-prediction pass has covered every train record before
\* train_epoch consumes its first batch of that epoch.
C8_SelfPredictionBeforeTraining ==
    (InEpoch /\ cur_epoch >= cfg.FREEZE_EPOCH /\ Logged("batch")) =>
        /\ Logged("sample_rate")
        /\ Logged("perform_test")
        /\ FirstAt("sample_rate") < FirstAt("perform_test")
        /\ FirstAt("perform_test") < FirstAt("batch")
        /\ pt_idx = NumRecords
        /\ \A i \in RecordIds : train_dataset.video_records[i].temp_valid
        /\ SameRate(train_dataset.sample_rate, CurriculumRate(cur_epoch))

\* freeze_epoch = 0, max_epoch = 1: the first batch of the only epoch.
C8_Witness ==
    /\ cfg.FREEZE_EPOCH = 0
    /\ cfg.MAX_EPOCH = 1
    /\ cur_epoch = 0
    /\ tpc = "train_epoch"
    /\ cur_iter = 1
    /\ Logged("batch")

\* C10: once a training iteration has computed a non-finite loss, training
\* has halted in that iteration without its backward pass and optimizer
\* step, and no iteration, epoch or checkpoint follows.
C10_NonFiniteLossHalts ==
    /\ [](nan_seen =>
            /\ tpc = "crashed"
            /\ crash = "nan_loss"
            /\ backward_passes = iterations_started - 1
            /\ optimizer_steps = iterations_started - 1)
    /\ [][nan_seen =>
            UNCHANGED <<cur_epoch, cur_iter, val_iter, iterations_started, backward_passes,
                        optimizer_steps, last_saved, epoch_log, train_dataset>>]_vars

\* A non-finite loss after some completed iterations and a saved checkpoint.
C10_Witness ==
    /\ nan_seen
    /\ tpc = "crashed"
    /\ optimizer_steps >= 1
    /\ last_saved >= 0
    /\ cur_epoch < cfg.MAX_EPOCH

\* ================================================ checkpoint loading

\* The loading has run.
Loaded == tpc \notin {"idle", "load"}

AutoResumes == cfg_train.AUTO_RESUME /\ stored.output_dir # -1

\* The first epoch as the three cases give it: the last checkpoint's epoch
\* + 1 under auto-resume with a prior checkpoint, else the explicit
\* checkpoint's epoch + 1 without fine-tune, else 0.
FirstEpoch ==
    IF AutoResumes THEN stored.output_dir + 1
    ELSE IF cfg_train.CHECKPOINT_FILE_PATH # "" /\ ~cfg_train.FINETUNE THEN stored.file + 1
    ELSE 0

\* The epoch loop starts at FirstEpoch and goes up one epoch at a time,
\* never past max_epoch - 1.
FirstEpochThenInOrder ==
    /\ [](Loaded => (start_epoch = FirstEpoch /\ cur_epoch >= start_epoch))
    /\ [][Loaded => (cur_epoch' = cur_epoch \/
                        (cur_epoch' = cur_epoch + 1 /\ cur_epoch < cfg.MAX_EPOCH))]_vars
    /\ [](InEpoch => cur_epoch < cfg.MAX_EPOCH)

\* C11: the first epoch is the last checkpoint's epoch + 1 under auto-resume
\* with a prior checkpoint (ahead of any explicit path), else the explicit
\* checkpoint's epoch + 1 when a path is given without fine-tune, else 0;
\* the fine-tune loading does not restore the optimizer state.
C11_FirstEpochAndFreshOptimizer ==
    Loaded =>
        /\ start_epoch = FirstEpoch
        /\ cur_epoch >= start_epoch
        /\ (loaded.branch = "finetune" => loaded.optimizer_state = "fresh")

\* ========================================== reductions across workers

\* C12: with more than one GPU, in every iteration of train_epoch and of
\* eval_epoch each logged scalar has gone through all_reduce before its
\* .item() copy to the host; no scalar is materialized before its reduction.
C12_ReducedBeforeItem ==
    run_cfg.NUM_GPUS > 1 =>
        \A w \in Workers : worker[w].items \subseteq worker[w].reduced

\* Two workers have logged a verb/noun training iteration with all nine
\* scalars copied to the host.
C12_Witness ==
    /\ run_cfg.NUM_GPUS > 1
    /\ run_cfg.loop = "train"
    /\ ~run_cfg.DETECTION
    /\ run_cfg.dict_labels
    /\ \A w \in Workers : worker[w].at = "done" /\ Cardinality(worker[w].items) = 9

\* C13: with more than one GPU no worker leaves the iteration (on its loss
\* value, its random draws or its temp-label state) ahead of a reduction
\* that another worker enters, so no worker waits in a reduction forever.
C13_NoWorkerWaitsForever ==
    run_cfg.NUM_GPUS > 1 =>
        \A w1, w2 \in Workers :
            ~(worker[w1].waiting /\ worker[w2].at = "raised")

\* ================================================ curriculum schedule

RateLess(a, b) == a.num * b.den < b.num * a.den

\* C14: in every curriculum epoch e (freeze_epoch <= e < max_epoch) the
\* sample rate is (e - freeze_epoch + 1) / (max_epoch - freeze_epoch): the
\* denominator is not zero, the value lies in (0, 1], it is 1 in the final
\* epoch max_epoch - 1, and every update of the rate raises it.
C14_SampleRateRamp ==
    /\ []((InEpoch /\ cur_epoch >= cfg.FREEZE_EPOCH) =>
            LET sr == train_dataset.sample_rate
            IN  /\ cfg.MAX_EPOCH - cfg.FREEZE_EPOCH > 0
                /\ sr.den = cfg.MAX_EPOCH - cfg.FREEZE_EPOCH
                /\ sr.num = cur_epoch - cfg.FREEZE_EPOCH + 1
                /\ 0 < sr.num
                /\ sr.num <= sr.den
                /\ (cur_epoch = cfg.MAX_EPOCH - 1 => sr.num = sr.den))
    /\ [][train_dataset'.sample_rate # train_dataset.sample_rate =>
            RateLess(train_dataset.sample_rate, train_dataset'.sample_rate)]_vars

\* The second of two curriculum epochs is training at rate 1.
C14_Witness ==
    /\ cfg.FREEZE_EPOCH = 0
    /\ cfg.MAX_EPOCH >= 2
    /\ start_epoch = 0
    /\ cur_epoch = cfg.MAX_EPOCH - 1
    /\ tpc = "train_epoch"
    /\ train_dataset.sample_rate.num = train_dataset.sample_rate.den

\* C19: train_epoch returns after floor(len(train_loader) / 10) batches in
\* an epoch below freeze_epoch and after len(train_loader) batches in an
\* epoch at or above it; the epoch fraction of every processed iteration is
\* computed without a division by zero and lies in [cur_epoch, cur_epoch + 1).
C19_BatchesAndEpochFraction ==
    /\ [][(tpc = "train_epoch" /\ tpc' \in {"epoch", "eval_epoch"}) =>
            cur_iter = IF cur_epoch >= cfg.FREEZE_EPOCH
                       THEN train_len
                       ELSE train_len \div TruncationDivisor]_vars
    /\ [][cur_iter' # cur_iter /\ tpc' = "train_epoch" /\ tpc = "train_epoch" =>
            /\ cur_iter' = cur_iter + 1
            /\ lr_epoch'.status = "ok"
            /\ lr_epoch'.epoch = cur_epoch
            /\ lr_epoch'.iter = cur_iter]_vars
    /\ [](/\ lr_epoch.status # "ZeroDivisionError"
          /\ crash # "ZeroDivisionError"
          /\ lr_epoch.den >= 1
          /\ lr_epoch.epoch * lr_epoch.den <= lr_epoch.num
          /\ lr_epoch.num < (lr_epoch.epoch + 1) * lr_epoch.den)

\* An epoch below freeze_epoch on a loader of ten batches has returned after
\* one batch.
C19_Witness ==
    /\ train_len = TruncationDivisor
    /\ cfg.FREEZE_EPOCH >= 1
    /\ start_epoch = 0
    /\ cur_epoch = 1
    /\ tpc = "epoch"
    /\ cur_iter = 1
    /\ lr_epoch.status = "ok"
    /\ Logged("train_epoch_done")

\* C20: in every epoch below freeze_epoch train() leaves sample_rate and
\* every record's temp label as they are, runs no self-prediction pass and
\* reshuffles the train loader with that epoch before training; in every
\* epoch at or above freeze_epoch it does not reshuffle.
C20_ShuffleEpochFrame ==
    /\ []((InEpoch /\ cur_epoch < cfg.FREEZE_EPOCH) =>
            /\ Logged("shuffle_dataset")
            /\ shuffled_with = cur_epoch
            /\ FirstAt("shuffle_dataset") < FirstAt("train_epoch")
            /\ (Logged("batch") => FirstAt("shuffle_dataset") < FirstAt("batch"))
            /\ ~Logged("sample_rate")
            /\ ~Logged("perform_test"))
    /\ []((InEpoch /\ cur_epoch >= cfg.FREEZE_EPOCH) => ~Logged("shuffle_dataset"))
    /\ [][cur_epoch < cfg.FREEZE_EPOCH => train_dataset' = train_dataset]_vars
    /\ [][cur_epoch >= cfg.FREEZE_EPOCH => shuffled_with' = shuffled_with]_vars

\* The second epoch below freeze_epoch is training after its reshuffle.
C20_Witness ==
    /\ cfg.FREEZE_EPOCH >= 2
    /\ start_epoch = 0
    /\ cur_epoch = 1
    /\ tpc = "train_epoch"
    /\ shuffled_with = 1
    /\ Logged("batch")

\* ===================================================== record accessors

\* The id is a first segment, an underscore and a second segment of n
\* characters that ends the id or is followed by another underscore.
SecondSegmentHasLength(id, n) ==
    \E i \in 1..Len(id) :
        /\ id[i] = "_"
        /\ \A k \in 1..(i - 1) : id[k] # "_"
        /\ i + n <= Len(id)
        /\ \A k \in (i + 1)..(i + n) : id[k] # "_"
        /\ (i + n = Len(id) \/ id[i + n + 1] = "_")

FpsRead == ops # <<>> /\ ops[Len(ops)].op = "fps"

\* C15: fps is 50 when the second underscore-delimited segment of the video
\* id has length 3 and 60 for every other length of it, and reading it
\* leaves the record as it was.
C15_FpsBySecondSegment ==
    FpsRead =>
        /\ \A n \in 0..Len(rec.series.video_id) :
              SecondSegmentHasLength(rec.series.video_id, n) =>
                  /\ read_result.status = "ok"
                  /\ read_result.value = IF n = 3 THEN 50 ELSE 60
        /\ rec = NewRecord(<<rec.index, rec.series>>)

\* fps read as 50 on "P01_101".
C15_Witness ==
    /\ FpsRead
    /\ rec.series.video_id = <<"P", "0", "1", "_", "1", "0", "1">>
    /\ read_result = [status |-> "ok", value |-> 50]

\* C16: invalidate_temp changes the validity flag and nothing else (the
\* stored temp verb and noun, the index and the series stay); set_temp_label
\* stores both values and marks the record valid whatever its prior state.
C16_TempLabelFrame ==
    [][(Len(ops') = Len(ops) + 1) =>
        LET call == ops'[Len(ops')]
        IN  /\ call.op = "invalidate" =>
                  /\ ~rec'.temp_valid
                  /\ rec'.temp_verb = rec.temp_verb
                  /\ rec'.temp_noun = rec.temp_noun
                  /\ rec'.index = rec.index
                  /\ rec'.series = rec.series
            /\ call.op = "set" =>
                  /\ rec'.temp_valid
                  /\ rec'.temp_verb = call.verb
                  /\ rec'.temp_noun = call.noun
                  /\ rec'.index = rec.index
                  /\ rec'.series = rec.series]_vars

\* A stored temp label survives an invalidation and is then overwritten.
C16_Witness ==
    /\ Len(ops) = 3
    /\ ops[1].op = "set"
    /\ ops[2].op = "invalidate"
    /\ ops[3].op = "set"
    /\ ops[3].verb # ops[1].verb
    /\ rec.temp_valid
    /\ rec.temp_verb = ops[3].verb

\* ===================================================== schedule shape

\* Index i is one of the values of batch k of the schedule.
EmittedIn(i, k) == \E p \in 1..Len(sequence[k]) : sequence[k][p] = i

\* C17: for every video group and every index i with start_idx <= i <
\* end_idx, index i + 1 is emitted in the batch right after the batch that
\* emits i.
C17_NextIndexInNextBatch ==
    spc = "done" =>
        \A g \in 1..Len(video_list) :
            \A i \in video_list[g].start_idx..(video_list[g].end_idx - 1) :
                /\ \E k \in 1..Len(sequence) : EmittedIn(i, k)
                /\ \A k \in 1..Len(sequence) :
                      EmittedIn(i, k) => (k < Len(sequence) /\ EmittedIn(i + 1, k + 1))

\* Two lanes, one of them walking a video of three records or more.
C17_Witness ==
    /\ spc = "done"
    /\ batch_num >= 2
    /\ Len(video_list) >= 2
    /\ \E g \in 1..Len(video_list) : video_list[g].end_idx >= video_list[g].start_idx + 2

InitialLanes == Min(Len(video_list), batch_num)

\* C18: the first batch holds the start indices of the first
\* min(num_groups, batch_num) groups in group order; every batch has between
\* 1 and min(num_groups, batch_num) entries; a batch is never longer than the
\* one before it, and as long as a group that no batch has touched remains,
\* the batches keep the initial number of entries.
C18_BatchLengths ==
    (batch_num >= 1 /\ SamplerReturned) =>
        /\ Len(records) >= 1 => Len(sequence) >= 1
        /\ Len(sequence) >= 1 =>
              sequence[1] = [g \in 1..InitialLanes |-> video_list[g].start_idx]
        /\ \A k \in 1..Len(sequence) :
              1 <= Len(sequence[k]) /\ Len(sequence[k]) <= InitialLanes
        /\ \A k \in 1..(Len(sequence) - 1) :
              /\ Len(sequence[k + 1]) <= Len(sequence[k])
              /\ (\E g \in 1..Len(video_list) : ~StartedBy(g, k + 1)) =>
                    Len(sequence[k + 1]) = InitialLanes

\* Three videos on two lanes: the first lane to finish takes the third
\* video, and the schedule ends on a single lane.
C18_Witness ==
    /\ spc = "done"
    /\ batch_num = 2
    /\ Len(video_list) = 3
    /\ Len(sequence) >= 3
    /\ Len(sequence[2]) = 2
    /\ ~StartedBy(3, 1)
    /\ Len(sequence[Len(sequence)]) = 1

\* ================================================ steps of one epoch

\* Event a is in the epoch log, once, and ahead of event b if b is there.
OnceBefore(a, b) ==
    /\ Occurrences(a, epoch_log) = 1
    /\ Logged(b) => FirstAt(a) < FirstAt(b)

\* C21: within an epoch train() runs the training epoch, then the periodic
\* checkpoint (only when is_checkpoint_epoch said so), then the evaluation
\* (only when is_eval_epoch said so), then the best-epoch checkpoint, which
\* is saved only after eval_epoch ran in that epoch and returned the
\* best-epoch flag as true.
C21_EpochStepOrder ==
    /\ \A e \in {"train_epoch", "train_epoch_done", "save_checkpoint", "eval_epoch",
                  "eval_epoch_done", "save_best_checkpoint"} :
          Occurrences(e, epoch_log) <= 1
    /\ Logged("train_epoch_done") => OnceBefore("train_epoch", "train_epoch_done")
    /\ Logged("save_checkpoint") =>
          /\ epoch_flags.is_checkpoint_epoch = "true"
          /\ OnceBefore("train_epoch_done", "save_checkpoint")
          /\ OnceBefore("save_checkpoint", "eval_epoch")
          /\ OnceBefore("save_checkpoint", "save_best_checkpoint")
    /\ epoch_flags.is_checkpoint_epoch = "true" => Logged("save_checkpoint")
    /\ Logged("eval_epoch") =>
          /\ epoch_flags.is_eval_epoch = "true"
          /\ OnceBefore("train_epoch_done", "eval_epoch")
          /\ OnceBefore("eval_epoch", "eval_epoch_done")
    /\ epoch_flags.is_eval_epoch = "true" => Logged("eval_epoch")
    /\ Logged("save_best_checkpoint") =>
          /\ epoch_flags.is_best_epoch = "true"
          /\ OnceBefore("eval_epoch", "eval_epoch_done")
          /\ OnceBefore("eval_epoch_done", "save_best_checkpoint")
    /\ epoch_flags.is_best_epoch # "none" => Logged("eval_epoch_done")

\* The second epoch of a run has ended with all four steps taken.
C21_Witness ==
    /\ tpc = "epoch"
    /\ Logged("save_checkpoint")
    /\ Logged("eval_epoch_done")
    /\ Logged("save_best_checkpoint")
    /\ cur_epoch = start_epoch + 2

\* ============================================== history window shape

\* Position j of the latest window was left as torch.zeros made it, with no
\* draw and no read of a record.
UntouchedCell(j) ==
    LET c == input_label.cells[j]
    IN  ~c.drawn /\ c.read = "none" /\ c.verb = {} /\ c.noun = {}

\* Position j has one verb class and one noun class set, both from the
\* ground truth or both from the temp label.
OneHotCell(j) ==
    /\ Cardinality(input_label.cells[j].verb) = 1
    /\ Cardinality(input_label.cells[j].noun) = 1
    /\ GroundTruthCell(j) \/ SelfPredictedCell(j)

\* A step of train() that runs one iteration of train_epoch or eval_epoch.
IterationStep ==
    \/ iterations_started' # iterations_started
    \/ tpc = "eval_epoch" /\ tpc' \in {"eval_epoch", "crashed"}

\* The padding positions are untouched, and the valid positions of a window
\* built without a failed temp_label read are one-hot.
BuiltWindowShape ==
    \A j \in 1..HistLen :
        IF input_label.inputs_index[j] = -1
        THEN UntouchedCell(j)
        ELSE input_label.status = "ok" => OneHotCell(j)

BuiltWindowsHaveShape == [][IterationStep => BuiltWindowShape']_vars

\* The padding positions are untouched and every valid position is one-hot.
WindowShape ==
    \A j \in 1..HistLen :
        IF input_label.inputs_index[j] = -1 THEN UntouchedCell(j) ELSE OneHotCell(j)

\* C22: in every iteration of train_epoch and eval_epoch, every history
\* position holding the padding sentinel -1 gets no draw, no read of label
\* or temp_label and all-zero verb and noun encodings; every valid position
\* gets exactly one verb class and one noun class set to 1, both from the
\* same source.
C22_PaddingZeroValidOneHot == [][IterationStep => WindowShape']_vars

\* ================================================== meter bookkeeping

\* Batches train_epoch processes in epoch e when no iteration raises.
BatchesOf(e) ==
    IF e >= cfg.FREEZE_EPOCH THEN train_len ELSE train_len \div TruncationDivisor

\* The meter matches in every run that does not start past freeze_epoch.
MeterMatchesFromFreezeOn ==
    (tpc = "train_epoch" /\ start_epoch <= cfg.FREEZE_EPOCH) =>
        meter_epoch_iters = BatchesOf(cur_epoch)

\* C23: whatever epoch train() starts from (0 or a resumed last_epoch + 1,
\* also one past freeze_epoch), in every epoch it runs the train meter's
\* iterations per epoch equal the number of batches train_epoch processes
\* in that epoch.
C23_MeterMatchesBatches ==
    tpc = "train_epoch" => meter_epoch_iters = BatchesOf(cur_epoch)

\* ========================================= evaluation and temp labels

\* train() never changes the validation dataset: its sample_rate stays at
\* the initial value and none of its records gets a temp label.
ValDatasetUntouched == val_dataset = FreshDataset

\* C24: during a run of train(), eval_epoch never reads temp_label of a
\* validation record whose temp label is invalid: whatever the draws, the
\* temp_label assertion is not triggered.
C24_EvalNeverReadsInvalidTemp ==
    input_label.loop = "eval" =>
        /\ input_label.status = "ok"
        /\ \A j \in 1..HistLen :
              input_label.cells[j].read = "temp_label" =>
                  val_dataset.video_records[input_label.inputs_index[j]].temp_valid

\* ================================================= one lane per video

\* C25: in every batch of the schedule no two positions hold indices of the
\* same video group, and groups are started in group order: the start index
\* of group g + 1 is in no earlier batch than the start index of group g.
C25_OneLanePerGroupInOrder ==
    /\ \A k \in 1..Len(sequence) :
          \A p, q \in 1..Len(sequence[k]) :
              p # q => ~SameGroup(sequence[k][p], sequence[k][q])
    /\ \A g \in 1..(Len(video_list) - 1) :
          \A k \in 1..Len(sequence) :
              EmittedIn(video_list[g + 1].start_idx, k) =>
                  \E k2 \in 1..k : EmittedIn(video_list[g].start_idx, k2)

\* Three videos on two lanes: the third video starts in a later batch, next
\* to a lane that is still inside the second video.
C25_Witness ==
    /\ spc = "done"
    /\ batch_num = 2
    /\ Len(video_list) = 3
    /\ \E k \in 2..Len(sequence) :
          /\ Len(sequence[k]) = 2
          /\ EmittedIn(video_list[3].start_idx, k)
          /\ \E p \in 1..2 : InGroup(sequence[k][p], 2)

====
